---- MODULE Spec2Model ----
(***************************************************************************)
(* Model of currency_rates_downloader.py: the __main__ script that, for    *)
(* the Central Bank of Russia (CBR, id 2) and then the National Bank of    *)
(* Ukraine (NBU, id 8), reads the work list and the currency list from the *)
(* database, requests one XML document per date, saves the fresh rates and *)
(* finally forms and sends one email.                                      *)
(*                                                                         *)
(* A date is the tuple <<year, month, day>>, compared as Python compares   *)
(* datetime.date values.  A string that the script builds is the sequence  *)
(* of its "\n"-terminated lines, each line a record.  An exception that    *)
(* nothing catches ends the process: pc = "crashed".                       *)
(***************************************************************************)
EXTENDS Integers, Sequences, FiniteSets, TLC

\* ------------------------------------------------------------------ bounds
NumDates == 2      \* dates of the download window, from MIN_DATE on
MaxElements == 2   \* currency elements the remote servers deliver during one run

\* --------------------------------------------------------------- constants
ID_CBR == 2
ID_NBU == 8
Sources == {ID_CBR, ID_NBU}

MIN_DATE == <<2019, 5, 5>>
Dates == {<<MIN_DATE[1], MIN_DATE[2], MIN_DATE[3] + k>> : k \in 0..(NumDates - 1)}
\* a last-known date older than the whole window
OlderDate == <<2019, 4, 30>>
FreshDates == {OlderDate} \cup Dates

Codes == {"840", "978"}

\* datetime.date comparison: lexicographic on (year, month, day)
DateGreater(a, b) ==
    \/ a[1] > b[1]
    \/ a[1] = b[1] /\ a[2] > b[2]
    \/ a[1] = b[1] /\ a[2] = b[2] /\ a[3] > b[3]

Latest(S) == CHOOSE a \in S : \A b \in S : a = b \/ DateGreater(a, b)

\* The text of a Date attribute "dd.mm.yyyy" is the tuple <<dd, mm, yyyy>>.
NoAttr == <<>>
DateText(d) == <<d[3], d[2], d[1]>>
DateAttrs == {DateText(d) : d \in Dates} \cup {NoAttr}

\* datetime.datetime.strptime(text, "%d.%m.%Y").date()
Strptime(text) == <<text[3], text[2], text[1]>>

\* ------------------------------------------------------ the XML documents
\* The fields of one currency element.  kind says which fields it has:
\*   "ok"      every field the variant reads
\*   "noid"    no ID attribute (CBR) / no r030 child (NBU)
\*   "novalue" no Value child, or one that is no number (CBR) / the same
\*             for the rate child (NBU)
\*   "nochar"  no CharCode child (CBR) / no cc child (NBU)
Kinds == {"ok", "noid", "novalue", "nochar"}
Elements == [ID : Codes, kind : Kinds]
NoElement == [ID |-> "", kind |-> ""]

ValueText(code) == IF code = "840" THEN <<"9", "0", ",", "5">>
                                   ELSE <<"1", ",", "2">>
NominalText(s, code) == IF s = ID_CBR /\ code = "978" THEN "10" ELSE "1"
CharCode(code) == IF code = "840" THEN "USD" ELSE "EUR"

\* text.replace(',', '.'), the argument of float()
ReplaceComma(text) == [i \in 1..Len(text) |-> IF text[i] = "," THEN "." ELSE text[i]]

\* What requests.get + raise_for_status can do, and the root of the body.
Statuses == {"ok", "Timeout", "HTTPError", "RequestException"}
Heads == [status : {"ok"}, xml : {"wellformed", "malformed"}, Date : DateAttrs]
         \cup [status : Statuses \ {"ok"}, xml : {"none"}, Date : {NoAttr}]
NoResponse == [status |-> "", xml |-> "", Date |-> NoAttr]

\* A remote document fixed for a (source, date): its head and its elements.
Free == [status |-> "free", xml |-> "", Date |-> NoAttr, entries |-> <<>>]

SeqsUpTo(S, n) == UNION {[1..k -> S] : k \in 0..n}

\* --------------------------------------------------------------- the lines
NoDate == <<0, 0, 0>>
BlankLine == [tag |-> "", date |-> NoDate, code |-> "", value |-> <<>>, nominal |-> ""]
SourceLine(s) ==
    [tag |-> IF s = ID_CBR THEN "Downloaded exchange rates from CBR:"
                           ELSE "Downloaded exchange rates from NBU :",
     date |-> NoDate, code |-> "", value |-> <<>>, nominal |-> ""]
DateLine(d) ==
    [tag |-> "***** Exchange rates on date *****", date |-> d,
     code |-> "", value |-> <<>>, nominal |-> ""]
RateLine(char, value, nominal) ==
    [tag |-> "rate", date |-> NoDate, code |-> char, value |-> value,
     nominal |-> nominal]

\* "Downloaded exchange rates from ...:\n\n"
Header(s) == <<SourceLine(s), BlankLine>>

NoResult == [has |-> FALSE, body |-> <<>>, set |-> FALSE]

VARIABLES
    gw_urls,       \* database: the dates f_crncy_downldr_return_url returns, per source
    gw_fresh,      \* database: the last-known date of each wanted currency at the start
    feed,          \* remote servers: the document of a (source, date), or Free
    run,           \* 1 for the first invocation of the script, 2 for the next one
    pc,            \* position of the script
    src,           \* var_in_crncy_id of the running download_rates
    url_list,      \* keys of url_list the for loop has not visited yet
    crncy_list,    \* crncy_list of the running download_rates
    date,          \* key of the current item
    response,      \* head of the current response
    pos,           \* number of currency elements the loop of save_data has taken
    currency,      \* the element taken last
    email_body_date,
    email_body,    \* email_body of download_rates, then of __main__
    has_result_to_send,
    result,        \* what download_rates returned, per source
    sent,          \* send_email was called
    saved,         \* every call of f_crncy_downldr_save_rate, in order
    fetched,       \* requests.get calls of this run, per source and date
    skipped,       \* <<run, source, date>> of the requests that failed
    taken,         \* currency elements delivered so far in this run
    crash,         \* the exception that ended the process, "" if none
    first          \* result of the first invocation, once the second has started

vars == <<gw_urls, gw_fresh, feed, run, pc, src, url_list, crncy_list, date,
          response, pos, currency, email_body_date, email_body,
          has_result_to_send, result, sent, saved, fetched, skipped, taken,
          crash, first>>

\* ------------------------------------------------------------ the database
Rows == {saved[i] : i \in 1..Len(saved)}

\* f_crncy_downldr_return_crncs: the wanted currencies of a source, each with
\* the most recent date a rate of it is stored for.
ListCrncs(s) ==
    [c \in DOMAIN gw_fresh[s] |->
        Latest({gw_fresh[s][c]} \cup
               {r.date : r \in {q \in Rows : q.src = s /\ q.code = c /\ q.ok}})]

\* f_crncy_downldr_return_url: the dates (each with its URL) of a source.
ListUrls(s) == gw_urls[s]

\* ------------------------------------------------------- the remote servers
Served(s, d) ==
    IF feed[s][d] = Free
    THEN {h \in Heads : s = ID_NBU => h.Date = NoAttr}
    ELSE {[status |-> feed[s][d].status, xml |-> feed[s][d].xml,
           Date |-> feed[s][d].Date]}

\* the element the iteration over root yields next, if any
NextElements ==
    IF taken >= MaxElements THEN {}
    ELSE IF feed[src][date] = Free THEN Elements
    ELSE IF pos < Len(feed[src][date].entries)
         THEN {feed[src][date].entries[pos + 1]} ELSE {}

RootExhausted ==
    IF feed[src][date] = Free THEN TRUE
    ELSE pos = Len(feed[src][date].entries)

\* ------------------------------------------------------------- the script
Start(urls, fresh, docs) ==
    /\ gw_urls = urls
    /\ gw_fresh = fresh
    /\ feed = docs
    /\ run = 1
    /\ pc = "cbr"
    /\ src = ID_CBR
    /\ url_list = {}
    /\ crncy_list = <<>>
    /\ date = NoDate
    /\ response = NoResponse
    /\ pos = 0
    /\ currency = NoElement
    /\ email_body_date = <<>>
    /\ email_body = <<>>
    /\ has_result_to_send = FALSE
    /\ result = [s \in Sources |-> NoResult]
    /\ sent = FALSE
    /\ saved = <<>>
    /\ fetched = [s \in Sources |-> [d \in Dates |-> 0]]
    /\ skipped = {}
    /\ taken = 0
    /\ crash = ""
    /\ first = [s \in Sources |-> NoResult]

FreshMaps == UNION {[D -> FreshDates] : D \in SUBSET Codes}

\* The database at the start: one source has dates to download, the other
\* has none and wants no currency.
OneSource(f) == \E s \in Sources : \A t \in Sources \ {s} : f[t] = {}
Databases ==
    {db \in [urls : [Sources -> SUBSET Dates], fresh : [Sources -> FreshMaps]] :
        /\ OneSource(db.urls)
        /\ \A s \in Sources : db.urls[s] = {} => db.fresh[s] = <<>>}

Init ==
    \E db \in Databases :
        Start(db.urls, db.fresh, [s \in Sources |-> [d \in Dates |-> Free]])

env == <<gw_urls, gw_fresh, feed>>
hist == <<fetched, skipped, taken>>
item == <<date, response, pos, currency, email_body_date>>

\* get_url_list, get_crncy_list and the first lines of download_rates
GetLists ==
    /\ pc \in {"cbr", "nbu"}
    /\ src' = IF pc = "cbr" THEN ID_CBR ELSE ID_NBU
    /\ url_list' = ListUrls(src')
    /\ crncy_list' = ListCrncs(src')
    /\ email_body' = Header(src')
    /\ has_result_to_send' = FALSE
    /\ pc' = "loop"
    /\ UNCHANGED <<env, run, item, result, sent, saved, hist, crash, first>>

\* As RequestFails, but the failure ends the loop over url_list.
RequestFailsAndStops(d) ==
    /\ pc = "loop"
    /\ d \in url_list
    /\ \E head \in Served(src, d) :
        /\ head.status # "ok"
        /\ response' = NoResponse
    /\ url_list' = {}
    /\ date' = d
    /\ email_body_date' = <<>>
    /\ fetched' = [fetched EXCEPT ![src][d] = @ + 1]
    /\ skipped' = skipped \cup {<<run, src, d>>}
    /\ pc' = "loop"
    /\ UNCHANGED <<env, run, src, crncy_list, pos, currency, email_body,
                   has_result_to_send, result, sent, saved, taken, crash, first>>

\* One iteration whose request raises: Timeout, HTTPError or any other
\* RequestException is printed; email_body_date stays "".
RequestFails(d) ==
    /\ pc = "loop"
    /\ d \in url_list
    /\ \E head \in Served(src, d) :
        /\ head.status # "ok"
        /\ response' = NoResponse
    /\ url_list' = url_list \ {d}
    /\ date' = d
    /\ email_body_date' = <<>>
    /\ fetched' = [fetched EXCEPT ![src][d] = @ + 1]
    /\ skipped' = skipped \cup {<<run, src, d>>}
    /\ pc' = "loop"
    /\ UNCHANGED <<env, run, src, crncy_list, pos, currency, email_body,
                   has_result_to_send, result, sent, saved, taken, crash, first>>

\* One iteration whose request succeeds: save_data is entered.
RequestSucceeds(d) ==
    /\ pc = "loop"
    /\ d \in url_list
    /\ \E head \in Served(src, d) :
        /\ head.status = "ok"
        /\ response' = head
    /\ url_list' = url_list \ {d}
    /\ date' = d
    /\ email_body_date' = <<>>
    /\ pos' = 0
    /\ currency' = NoElement
    /\ fetched' = [fetched EXCEPT ![src][d] = @ + 1]
    /\ pc' = "save_data"
    /\ UNCHANGED <<env, run, src, crncy_list, email_body, has_result_to_send,
                   result, sent, saved, skipped, taken, crash, first>>

\* An exception nothing catches: the traceback ends the process.
Raise(exc) ==
    /\ pc' = "crashed"
    /\ crash' = exc

\* root = ET.fromstring(response.text)
ParseXml ==
    /\ pc = "save_data"
    /\ IF response.xml = "malformed"
       THEN Raise("ParseError")
       ELSE pc' = "for_currency" /\ crash' = crash
    /\ UNCHANGED <<env, run, src, url_list, crncy_list, item, email_body,
                   has_result_to_send, result, sent, saved, hist, first>>

\* As Row, but the date saved is the minimum date of the window.
RowWithMinDate(e, nominal, ok) ==
    [run |-> run, src |-> src, code |-> e.ID, date |-> MIN_DATE,
     nominal |-> nominal, value |-> ReplaceComma(ValueText(e.ID)),
     ok |-> ok, pos |-> pos + 1, attr |-> response.Date]

Row(e, nominal, ok) ==
    [run |-> run, src |-> src, code |-> e.ID, date |-> date,
     nominal |-> nominal, value |-> ReplaceComma(ValueText(e.ID)),
     ok |-> ok, pos |-> pos + 1, attr |-> response.Date]

\* As KnownAndNewer, but a date equal to the last-known one passes.
KnownAndNewerOrEqual(e, d, list) ==
    /\ e.ID \in DOMAIN list
    /\ ~DateGreater(list[e.ID], d)

\* CBR branch: the identifier is in the list of currencies and the URL date
\* is fresher than the date the rates were last downloaded for.
KnownAndNewer(e, d, list) ==
    /\ e.ID \in DOMAIN list
    /\ DateGreater(d, list[e.ID])

\* As DateMatches, without the comparison.
DateMatchesAlways(d, attr) == TRUE

\* CBR branch: the URL date is the date the document declares.
DateMatches(d, attr) == d = Strptime(attr)

\* As IsFreshNbu, but a date equal to the last-known one passes.
IsFreshNbuOrEqual(e, d, list) ==
    /\ e.ID \in DOMAIN list
    /\ ~DateGreater(list[e.ID], d)

\* NBU branch: r030 is in the list and the URL date is fresher.
IsFreshNbu(e, d, list) ==
    /\ e.ID \in DOMAIN list
    /\ DateGreater(d, list[e.ID])

\* As Execute, but the statement is executed twice.
ExecuteTwice(e, nominal) ==
    \E ok \in BOOLEAN :
        /\ saved' = Append(Append(saved, Row(e, nominal, ok)), Row(e, nominal, ok))
        /\ IF ~ok
           THEN Raise("DatabaseError") /\ email_body_date' = email_body_date
           ELSE IF e.kind = "nochar"
           THEN Raise("KeyError") /\ email_body_date' = email_body_date
           ELSE /\ email_body_date' = Append(email_body_date,
                       RateLine(CharCode(e.ID), ValueText(e.ID), nominal))
                /\ pc' = "for_currency"
                /\ crash' = crash

\* cur.execute(save_rate), cur.execute("COMMIT") and the line of the email:
\* the statement may fail; the line reads CharCode / cc after the commit.
Execute(e, nominal) ==
    \E ok \in BOOLEAN :
        /\ saved' = Append(saved, Row(e, nominal, ok))
        /\ IF ~ok
           THEN Raise("DatabaseError") /\ email_body_date' = email_body_date
           ELSE IF e.kind = "nochar"
           THEN Raise("KeyError") /\ email_body_date' = email_body_date
           ELSE /\ email_body_date' = Append(email_body_date,
                       RateLine(CharCode(e.ID), ValueText(e.ID), nominal))
                /\ pc' = "for_currency"
                /\ crash' = crash

Skip == pc' = "for_currency" /\ crash' = crash /\ UNCHANGED <<saved, email_body_date>>
Abort(exc) == Raise(exc) /\ UNCHANGED <<saved, email_body_date>>

\* One iteration of "for currency in root", var_in_crncy_id == 2
SaveCbr(e) ==
    /\ pc = "for_currency"
    /\ src = ID_CBR
    /\ e \in NextElements
    /\ pos' = pos + 1
    /\ taken' = taken + 1
    /\ currency' = e
    /\ IF e.kind = "noid" THEN Abort("KeyError")
       ELSE IF ~KnownAndNewer(e, date, crncy_list) THEN Skip
       ELSE IF response.Date = NoAttr THEN Abort("KeyError")
       ELSE IF ~DateMatches(date, response.Date) THEN Skip
       ELSE IF e.kind = "novalue" THEN Abort("KeyError")
       ELSE Execute(e, NominalText(ID_CBR, e.ID))
    /\ UNCHANGED <<env, run, src, url_list, crncy_list, date, response,
                   email_body, has_result_to_send, result, sent, fetched,
                   skipped, first>>

\* One iteration of "for currency in root", the else branch
SaveNbu(e) ==
    /\ pc = "for_currency"
    /\ src = ID_NBU
    /\ e \in NextElements
    /\ pos' = pos + 1
    /\ taken' = taken + 1
    /\ currency' = e
    /\ IF e.kind = "noid" THEN Abort("KeyError")
       ELSE IF ~IsFreshNbu(e, date, crncy_list) THEN Skip
       ELSE IF e.kind = "novalue" THEN Abort("KeyError")
       ELSE Execute(e, "1")
    /\ UNCHANGED <<env, run, src, url_list, crncy_list, date, response,
                   email_body, has_result_to_send, result, sent, fetched,
                   skipped, first>>

\* As EndOfDocument, but the section is added even when it is empty.
EndOfDocumentAlways ==
    /\ pc = "for_currency"
    /\ RootExhausted
    /\ email_body' = email_body \o <<DateLine(date)>> \o email_body_date
                                \o <<BlankLine>>
    /\ has_result_to_send' = TRUE
    /\ pos' = 0
    /\ currency' = NoElement
    /\ response' = NoResponse
    /\ pc' = "loop"
    /\ UNCHANGED <<env, run, src, url_list, crncy_list, date, email_body_date,
                   result, sent, saved, hist, crash, first>>

\* save_data returns; the section of the date is added when it is not empty.
EndOfDocument ==
    /\ pc = "for_currency"
    /\ RootExhausted
    /\ IF email_body_date # <<>>
       THEN /\ email_body' = email_body \o <<DateLine(date)>> \o email_body_date
                                        \o <<BlankLine>>
            /\ has_result_to_send' = TRUE
       ELSE UNCHANGED <<email_body, has_result_to_send>>
    /\ pos' = 0
    /\ currency' = NoElement
    /\ response' = NoResponse
    /\ pc' = "loop"
    /\ UNCHANGED <<env, run, src, url_list, crncy_list, date, email_body_date,
                   result, sent, saved, hist, crash, first>>

\* download_rates returns has_result_to_send, email_body
Return ==
    /\ pc = "loop"
    /\ url_list = {}
    /\ result' = [result EXCEPT ![src] =
                    [has |-> has_result_to_send, body |-> email_body, set |-> TRUE]]
    /\ pc' = IF src = ID_CBR THEN "nbu" ELSE "form"
    /\ date' = NoDate
    /\ email_body_date' = <<>>
    /\ UNCHANGED <<env, run, src, url_list, crncy_list, response, pos, currency,
                   email_body, has_result_to_send, sent, saved, hist, crash,
                   first>>

\* "\n\n" between the two bodies
Separator == <<BlankLine, BlankLine>>

\* As FormBody, but the two bodies are joined whenever there is a change.
FormBodyJoined(cbr, nbu) ==
    IF cbr.has \/ nbu.has THEN cbr.body \o Separator \o nbu.body ELSE <<>>

\* Form Email body
FormBody(cbr, nbu) ==
    IF cbr.has /\ ~nbu.has THEN cbr.body
    ELSE IF cbr.has /\ nbu.has THEN cbr.body \o Separator \o nbu.body
    ELSE IF ~cbr.has /\ nbu.has THEN nbu.body
    ELSE <<>>

\* Form the body, send the email if there is one, clean up.
FormEmail ==
    /\ pc = "form"
    /\ email_body' = FormBody(result[ID_CBR], result[ID_NBU])
    /\ sent' = (email_body' # <<>>)
    /\ pc' = "done"
    /\ UNCHANGED <<env, run, src, url_list, crncy_list, item,
                   has_result_to_send, result, saved, hist, crash, first>>

\* The scheduler starts the script again.
Rerun ==
    /\ pc \in {"done", "crashed"}
    /\ run = 1
    /\ run' = 2
    /\ first' = result
    /\ pc' = "cbr"
    /\ src' = ID_CBR
    /\ url_list' = {}
    /\ crncy_list' = <<>>
    /\ date' = NoDate
    /\ response' = NoResponse
    /\ pos' = 0
    /\ currency' = NoElement
    /\ email_body_date' = <<>>
    /\ email_body' = <<>>
    /\ has_result_to_send' = FALSE
    /\ result' = [s \in Sources |-> NoResult]
    /\ sent' = FALSE
    /\ fetched' = [s \in Sources |-> [d \in Dates |-> 0]]
    /\ taken' = 0
    /\ crash' = ""
    /\ UNCHANGED <<env, saved, skipped>>

Next ==
    \/ GetLists
    \/ \E d \in Dates : RequestFails(d)
    \/ \E d \in Dates : RequestSucceeds(d)
    \/ ParseXml
    \/ \E e \in Elements : SaveCbr(e)
    \/ \E e \in Elements : SaveNbu(e)
    \/ EndOfDocument
    \/ Return
    \/ FormEmail

Spec == Init /\ [][Next]_vars

\* ------------------------------------------------- the other specifications
\* Both sources have one date to download; each wants one currency.
BothDatabases ==
    [urls : [Sources -> {{d} : d \in Dates}],
     fresh : [Sources -> [{"840"} -> FreshDates]]]

InitMain ==
    \E db \in BothDatabases :
        Start(db.urls, db.fresh, [s \in Sources |-> [d \in Dates |-> Free]])

SpecMain == InitMain /\ [][Next]_vars

\* The documents of the remote servers do not change between two runs.
FixedDocs(s) ==
    [status : {"Timeout"}, xml : {"none"}, Date : {NoAttr}, entries : {<<>>}]
    \cup [status : {"ok"}, xml : {"wellformed"},
          Date : IF s = ID_CBR THEN {DateText(d) : d \in Dates} ELSE {NoAttr},
          entries : SeqsUpTo([ID : Codes, kind : {"ok"}], MaxElements)]

RECURSIVE Total(_, _)
Total(f, S) ==
    IF S = {} THEN 0
    ELSE LET d == CHOOSE x \in S : TRUE
         IN Len(f[d].entries) + Total(f, S \ {d})

\* One wanted currency with any last-known date, or both with an old one.
TwiceMaps == [{"840"} -> FreshDates] \cup {[c \in Codes |-> OlderDate]}

InitTwice ==
    \E s \in Sources, w \in (SUBSET Dates) \ {{}} :
      \E f \in {g \in [w -> FixedDocs(s)] : Total(g, w) <= MaxElements},
         fresh \in TwiceMaps :
        Start([t \in Sources |-> IF t = s THEN w ELSE {}],
              [t \in Sources |-> IF t = s THEN fresh ELSE <<>>],
              [t \in Sources |-> [d \in Dates |->
                  IF t = s /\ d \in w THEN f[d] ELSE Free]])

NextTwice == Next \/ Rerun

SpecTwice == InitTwice /\ [][NextTwice]_vars

\* ================================================================ properties
InDownload == pc \in {"loop", "save_data", "for_currency"}
InSaveData == pc = "for_currency" /\ pos > 0

\* the calls of f_crncy_downldr_save_rate of a run for a source
RowsOf(r, s) ==
    LET Mine(q) == q.run = r /\ q.src = s IN SelectSeq(saved, Mine)
RowsAt(r, s, d) ==
    LET Mine(q) == q.run = r /\ q.src = s /\ q.date = d IN SelectSeq(saved, Mine)

Lines(body) == {body[i] : i \in 1..Len(body)}
IsRate(l) == l.tag = "rate"
IsDate(l) == l.tag = DateLine(NoDate).tag

\* the save of the element taken last was called
Called == Len(saved') = Len(saved) + 1
TakesElement == pc = "for_currency" /\ pos' = pos + 1

C2_TransportFailureIsolated ==
    /\ \A s \in Sources, d \in Dates : fetched[s][d] <= 1
    /\ \A s \in Sources, d \in Dates :
         <<run, s, d>> \in skipped =>
            /\ fetched[s][d] = 1
            /\ RowsAt(run, s, d) = <<>>
            /\ DateLine(d) \notin Lines(result[s].body)
            /\ (InDownload /\ src = s) => DateLine(d) \notin Lines(email_body)
    /\ InDownload =>
         /\ url_list \cup {d \in Dates : fetched[src][d] = 1} = gw_urls[src]
         /\ \A d \in url_list : fetched[src][d] = 0
    /\ \A s \in Sources :
         result[s].set => \A d \in gw_urls[s] : fetched[s][d] = 1
    /\ (pc = "crashed" /\ crash # "") => <<run, src, date>> \notin skipped

C2_Witness ==
    /\ result[src].set
    /\ \E d \in Dates : <<run, src, d>> \in skipped
    /\ \E d \in Dates : RowsAt(run, src, d) # <<>> /\ DateLine(d) \in Lines(result[src].body)

\* ---------------------------------------------------------------- C3
\* C3: a document that is not well-formed XML, or that lacks a field the
\* variant reads, is skipped and never ends the run.
C3_MalformedDocumentContained == crash \notin {"ParseError", "KeyError"}

\* ---------------------------------------------------------------- C4
\* C4: a failure of the save of one rate never ends the run.
C4_PersistFailureContained == crash # "DatabaseError"

\* ---------------------------------------------------------------- C6
\* C6 as stated: in one run a rate is saved at most once for each
\* (currency code, date) of a source, counting the saves that succeeded.
C6_AsStated ==
    \A i, j \in 1..Len(saved) :
        (/\ i # j
         /\ saved[i].ok /\ saved[j].ok
         /\ saved[i].run = saved[j].run /\ saved[i].src = saved[j].src
         /\ saved[i].date = saved[j].date) => saved[i].code # saved[j].code

\* C6 amended: in one run a rate is saved at most once for each element of
\* the document of a work item; two saves of one (currency code, date) come
\* from two elements of that document.
C6_OncePerElement ==
    \A i, j \in 1..Len(saved) :
        (/\ i < j
         /\ saved[i].run = saved[j].run /\ saved[i].src = saved[j].src
         /\ saved[i].date = saved[j].date) => saved[i].pos < saved[j].pos

C6_Witness ==
    \E i, j \in 1..Len(saved) :
        /\ i < j
        /\ saved[i].run = saved[j].run /\ saved[i].src = saved[j].src
        /\ saved[i].date = saved[j].date /\ saved[i].code = saved[j].code
        /\ saved[i].ok /\ saved[j].ok

\* ---------------------------------------------------------------- C9
\* C9: for the CBR nothing of a document is saved or reported when the Date
\* attribute of its root is not the date of the work item.
C9_DateGuard ==
    /\ \A i \in 1..Len(saved) :
         saved[i].src = ID_CBR => saved[i].attr = DateText(saved[i].date)
    /\ (src = ID_CBR /\ pc = "for_currency" /\ response.Date # DateText(date)) =>
         /\ email_body_date = <<>>
         /\ RowsAt(run, src, date) = <<>>

C9_Witness ==
    /\ InSaveData
    /\ src = ID_CBR
    /\ currency.kind = "ok"
    /\ KnownAndNewer(currency, date, crncy_list)
    /\ response.Date \notin {NoAttr, DateText(date)}
    /\ pos = MaxElements

\* ---------------------------------------------------------------- C10
\* the lines of the section of date d in a body
RECURSIVE Section(_, _)
Section(body, d) ==
    IF body = <<>> THEN <<>>
    ELSE IF Head(body) = DateLine(d)
    THEN LET rest == Tail(body)
             n == CHOOSE k \in 0..Len(rest) :
                    /\ \A i \in 1..k : IsRate(rest[i])
                    /\ k < Len(rest) => ~IsRate(rest[k + 1])
         IN SubSeq(rest, 1, n)
    ELSE Section(Tail(body), d)

LineOf(row) == RateLine(CharCode(row.code), ValueText(row.code), row.nominal)

\* C10: when download_rates returns, has_result_to_send is true exactly when
\* a rate was saved during the call, the body has the section of a date
\* exactly when a rate was saved for the date, and the rate lines of the
\* section are the rates saved for the date, one line each, in order.
C10_ReportMirrorsSaves ==
    \A s \in Sources :
        result[s].set =>
            /\ result[s].has <=> RowsOf(run, s) # <<>>
            /\ \A d \in Dates :
                 /\ DateLine(d) \in Lines(result[s].body) <=> RowsAt(run, s, d) # <<>>
                 /\ Len(Section(result[s].body, d)) = Len(RowsAt(run, s, d))
                 /\ \A k \in 1..Len(RowsAt(run, s, d)) :
                      /\ RowsAt(run, s, d)[k].ok
                      /\ Section(result[s].body, d)[k] = LineOf(RowsAt(run, s, d)[k])
            /\ Len(SelectSeq(result[s].body, IsRate)) = Len(RowsOf(run, s))
            /\ Len(SelectSeq(result[s].body, IsDate)) =
                 Cardinality({d \in Dates : RowsAt(run, s, d) # <<>>})

C10_Witness ==
    \E s \in Sources :
        /\ result[s].set
        /\ result[s].has
        /\ Len(RowsOf(run, s)) = MaxElements
        /\ \E d \in gw_urls[s] : RowsAt(run, s, d) = <<>>

\* ---------------------------------------------------------------- C8
Cbr == result[ID_CBR]
Nbu == result[ID_NBU]

\* C8: the email body is made of the bodies of the sources that have a
\* result to send, the CBR first: both bodies with only blank lines between
\* them when both have one, the body of the NBU alone (nothing before it)
\* when only the NBU has one, the empty string when none has; the email is
\* sent exactly when the body is not empty.
C8_ReportAggregation ==
    pc = "done" =>
        /\ (Cbr.has /\ Nbu.has) =>
             \E n \in 1..Len(email_body) :
                /\ email_body = Cbr.body \o [i \in 1..n |-> BlankLine] \o Nbu.body
        /\ (Cbr.has /\ ~Nbu.has) => email_body = Cbr.body
        /\ (~Cbr.has /\ Nbu.has) => email_body = Nbu.body
        /\ (~Cbr.has /\ ~Nbu.has) => email_body = <<>>
        /\ sent <=> (Cbr.has \/ Nbu.has)

C8_Witness ==
    /\ pc = "done"
    /\ ~Cbr.has /\ Nbu.has
    /\ Cbr.set /\ Cbr.body # <<>>
    /\ sent

SkippedFresh ==
    {x \in [s : Sources, d : Dates, c : Codes] :
        /\ <<1, x.s, x.d>> \in skipped
        /\ x.c \in DOMAIN gw_fresh[x.s]
        /\ DateGreater(x.d, gw_fresh[x.s][x.c])}

SecondRunOf(s) == run = 2 /\ src = s /\ InDownload

\* C7 as stated: when download_rates has returned in the first run, the
\* date of a work item whose request failed is still strictly greater than
\* the last-known date of the currency in the currency list of the next run.
C7_AsStated ==
    \A x \in SkippedFresh :
        (SecondRunOf(x.s) /\ first[x.s].set) =>
            DateGreater(x.d, crncy_list[x.c])

\* C7 amended: the date of a work item whose request failed is still
\* strictly greater than the last-known date of the currency in the currency
\* list of the next run exactly when the first run saved no rate of that
\* currency for a later date.
C7_SkippedStaysFresh ==
    \A x \in SkippedFresh :
        SecondRunOf(x.s) =>
            (DateGreater(x.d, crncy_list[x.c]) <=>
               ~\E i \in 1..Len(saved) :
                    /\ saved[i].run = 1 /\ saved[i].src = x.s
                    /\ saved[i].code = x.c /\ saved[i].ok
                    /\ DateGreater(saved[i].date, x.d))

C7_Witness ==
    \E x \in SkippedFresh :
        /\ SecondRunOf(x.s)
        /\ DateGreater(x.d, crncy_list[x.c])
        /\ \E i \in 1..Len(saved) :
             /\ saved[i].run = 1 /\ saved[i].src = x.s
             /\ saved[i].code = x.c /\ saved[i].ok

====
